---- MODULE Spec2Model ----
(***************************************************************************)
(* Model of the vacation planner: the optimal pairing search,              *)
(* src/src/utils/search_inventory.py (find_options and its helpers), and   *)
(* the chat controller that calls it, src/src/graph/build_graph.py, with   *)
(* the tool calls of src/src/agents/model_tools.py, the receipts of        *)
(* src/src/utils/booking.py and the state app.py keeps between turns.      *)
(*                                                                         *)
(* Data encoding.  Prices, budgets and ratings are natural numbers (the    *)
(* code's floats, in whole currency units); dates are day numbers.  A cell *)
(* of a catalog column is a number, BadCell (text that float(), or         *)
(* pd.to_datetime, cannot parse) or NaN (an empty CSV cell, which pandas   *)
(* reads as the float nan).  Python's None is None, pandas' NaT is NaT.    *)
(* An Optional value is a sequence of length 0 (None) or 1.                *)
(***************************************************************************)
EXTENDS Integers, Sequences, FiniteSets, TLC

VARIABLES flights_df, hotels_df, cols, req, pc, roundtrips, hotels_sorted, pos, best, result, prev,
          argsort,
          agent_state, call_state, cpc, tool_calls, last_tool, receipts, messages, user_text

vars == <<flights_df, hotels_df, cols, req, pc, roundtrips, hotels_sorted, pos, best, result, prev,
          argsort,
          agent_state, call_state, cpc, tool_calls, last_tool, receipts, messages, user_text>>

\* the variables of the chat controller (src/src/graph/build_graph.py, src/app.py)
chat == <<agent_state, call_state, cpc, tool_calls, last_tool, receipts, messages, user_text>>

(***************************************************************************)
(* Bounds of the model.                                                    *)
(***************************************************************************)
MaxFlights == 3
MaxHotels == 2
MaxTieHotels == 3
MaxBudget == 5
MaxDays == 4
MaxPairsCap == 2

\* max_pairs: int = 50000
DefaultMaxPairs == 50000

(***************************************************************************)
(* Special values.                                                         *)
(***************************************************************************)
None == -1
NaN == -2
BadCell == -3
NaT == -4

\* best_total = -1.0, the total before any candidate is installed
InitialBestTotal == -1

\* the tolerance of the tie test, abs(total - best_total) < 1e-6, in whole units
Epsilon == 1

Max(a, b) == IF a >= b THEN a ELSE b

Abs(a) == IF a >= 0 THEN a ELSE 0 - a

(***************************************************************************)
(* str.lower() and str.upper() on the strings of the model.                *)
(***************************************************************************)
Lower(s) ==
  CASE s = "NYC" -> "nyc"
    [] s = "LON" -> "lon"
    [] s = "Lon" -> "lon"
    [] s = "PAR" -> "par"
    [] OTHER -> s

Upper(s) ==
  CASE s = "outbound" -> "OUTBOUND"
    [] s = "return" -> "RETURN"
    [] OTHER -> s

(***************************************************************************)
(* Cells that hold text.  A text is a sequence of characters; the cell     *)
(* Text(k) holds Texts[k].  The texts of the model are written with        *)
(* digits, commas, blanks and letters only.                                *)
(***************************************************************************)
Texts ==
  << <<"1", ",", "0", "0", "0">>,
     <<" ", "2", " ">>,
     <<"t", "b", "d">>,
     <<"1", " ", "0">> >>

Text(k) == -10 - k

IsText(v) == v < -10

TextOf(v) == Texts[-10 - v]

\* variant: the separators are left in the text
KeepCommas(t) == t

\* v.replace(",", "")
RemoveCommas(t) == SelectSeq(t, LAMBDA c : c # ",")

\* str.strip(): the blanks at both ends removed
RECURSIVE Strip(_)
Strip(t) ==
  IF t = <<>> THEN t
  ELSE IF Head(t) = " " THEN Strip(Tail(t))
  ELSE IF t[Len(t)] = " " THEN Strip(SubSeq(t, 1, Len(t) - 1))
  ELSE t

DigitValue(c) ==
  CASE c = "0" -> 0 [] c = "1" -> 1 [] c = "2" -> 2 [] c = "3" -> 3 [] c = "4" -> 4
    [] c = "5" -> 5 [] c = "6" -> 6 [] c = "7" -> 7 [] c = "8" -> 8 [] c = "9" -> 9
    [] OTHER -> None

RECURSIVE DigitsValue(_, _)
DigitsValue(t, acc) ==
  IF t = <<>> THEN acc
  ELSE IF DigitValue(Head(t)) = None THEN None
  ELSE DigitsValue(Tail(t), acc * 10 + DigitValue(Head(t)))

\* float(t) on a text of digits, commas, blanks and letters: the decimal
\* value of a non-empty run of digits, ValueError (None) for anything else
FloatOfText(t) == IF t = <<>> THEN None ELSE DigitsValue(t, 0)

(***************************************************************************)
(* _to_float: float(v), or None when v does not parse.  float(nan) is nan. *)
(***************************************************************************)
to_float(v) ==
  IF IsText(v) THEN FloatOfText(Strip(RemoveCommas(TextOf(v))))
  ELSE IF v = BadCell THEN None
  ELSE v

\* Series.dropna keeps a row whose value is neither None nor nan
NotNA(v) == v # None /\ v # NaN

(***************************************************************************)
(* Series.apply(_to_float) over a column: pandas infers the dtype of the   *)
(* result.  When every value is None the column stays an object column of  *)
(* None; as soon as one value is a float (nan included) the column is      *)
(* float64 and each None is stored as nan.                                 *)
(***************************************************************************)
ApplyToFloat(column) ==
  LET parsed == [i \in DOMAIN column |-> to_float(column[i])]
  IN  IF \E i \in DOMAIN parsed : parsed[i] # None
      THEN [i \in DOMAIN parsed |-> IF parsed[i] = None THEN NaN ELSE parsed[i]]
      ELSE parsed

(***************************************************************************)
(* pd.to_datetime(..., errors="coerce").dt.date: a day number, or NaT.     *)
(***************************************************************************)
ToDate(v) == IF v = BadCell \/ v = NaN THEN NaT ELSE v

\* datetime.strptime(start_date, "%Y-%m-%d"): Optional date
ParseStart(s) == IF s = BadCell THEN <<>> ELSE <<s>>

\* variant: the floor of one night is missing
NightsNoFloor(days) == days - 1

\* nights = max(1, int(days) - 1)
Nights(days) == Max(1, days - 1)

\* return_date = start + timedelta(days=int(days) - 1)
ReturnDate(start, days) == start + (days - 1)

(***************************************************************************)
(* out_mask and ret_mask: the rows of flights_df, by index, that are       *)
(* outbound legs origin -> destination on `start`, and return legs         *)
(* destination -> origin on `return_date`.  A comparison with NaT is False.*)
(***************************************************************************)
\* variant: the direction column is not consulted
OutMaskAnyDirection(i) ==
  LET f == flights_df[i]
      start == ParseStart(req.start_date)[1]
  IN  /\ Lower(f.origin) = Lower(req.origin)
      /\ Lower(f.destination) = Lower(req.destination)
      /\ ToDate(f.date) # NaT /\ ToDate(f.date) = start

OutMask(i) ==
  LET f == flights_df[i]
      start == ParseStart(req.start_date)[1]
  IN  /\ Lower(f.origin) = Lower(req.origin)
      /\ Lower(f.destination) = Lower(req.destination)
      /\ ToDate(f.date) # NaT /\ ToDate(f.date) = start
      /\ cols.direction => Upper(f.direction) = "OUTBOUND"

RetMask(i) ==
  LET f == flights_df[i]
      start == ParseStart(req.start_date)[1]
  IN  /\ Lower(f.origin) = Lower(req.destination)
      /\ Lower(f.destination) = Lower(req.origin)
      /\ ToDate(f.date) # NaT /\ ToDate(f.date) = ReturnDate(start, req.days)
      /\ cols.direction => Upper(f.direction) = "RETURN"

\* the row indices of flights_df, in row order
FlightIdx == [i \in 1..Len(flights_df) |-> i]

HasPrice(i) == NotNA(to_float(flights_df[i].price))

\* out / ret before the price column is added (lines 90, 99)
OutRows == SelectSeq(FlightIdx, OutMask)

RetRows == SelectSeq(FlightIdx, RetMask)

\* out / ret after dropna(subset=["_price"]) (lines 104-107)
OutPriced == SelectSeq(OutRows, HasPrice)

RetPriced == SelectSeq(RetRows, HasPrice)

FlightPrice(i) == to_float(flights_df[i].price)

(***************************************************************************)
(* The enumeration loop of lines 111-126: outbound-major, one round trip   *)
(* appended per pair, stopped once count >= max_pairs.                     *)
(***************************************************************************)
RoundTrip(o, r) ==
  [outbound |-> o, return |-> r, roundtrip_price_usd |-> FlightPrice(o) + FlightPrice(r)]

RECURSIVE EnumerateFrom(_, _, _, _, _, _)
EnumerateFrom(out, ret, i, j, acc, max_pairs) ==
  IF i > Len(out) THEN acc
  ELSE IF j > Len(ret) THEN EnumerateFrom(out, ret, i + 1, 1, acc, max_pairs)
  ELSE LET acc2 == Append(acc, RoundTrip(out[i], ret[j]))
       IN  IF Len(acc2) >= max_pairs
           THEN acc2
           ELSE EnumerateFrom(out, ret, i, j + 1, acc2, max_pairs)

Enumerate(out, ret, max_pairs) == EnumerateFrom(out, ret, 1, 1, <<>>, max_pairs)

\* variant: the round trips are left in enumeration order
Unsorted(rts) == rts

(***************************************************************************)
(* list.sort(key=roundtrip_price_usd): a stable ascending sort.            *)
(***************************************************************************)
RECURSIVE InsertByPrice(_, _)
InsertByPrice(sorted, rt) ==
  IF sorted = <<>> THEN <<rt>>
  ELSE IF sorted[Len(sorted)].roundtrip_price_usd <= rt.roundtrip_price_usd
       THEN Append(sorted, rt)
       ELSE Append(InsertByPrice(SubSeq(sorted, 1, Len(sorted) - 1), rt), sorted[Len(sorted)])

RECURSIVE SortByPrice(_)
SortByPrice(rts) ==
  IF rts = <<>> THEN <<>>
  ELSE InsertByPrice(SortByPrice(SubSeq(rts, 1, Len(rts) - 1)), rts[Len(rts)])

RtPrices(rts) == [k \in DOMAIN rts |-> rts[k].roundtrip_price_usd]

\* variant: bisect_left, the insertion point before the values equal to x
RECURSIVE BisectLeftLoop(_, _, _, _)
BisectLeftLoop(a, x, lo, hi) ==
  IF lo < hi
  THEN LET mid == (lo + hi) \div 2
       IN  IF a[mid + 1] < x
           THEN BisectLeftLoop(a, x, mid + 1, hi)
           ELSE BisectLeftLoop(a, x, lo, mid)
  ELSE lo

bisect_left(a, x) == BisectLeftLoop(a, x, 0, Len(a))

(***************************************************************************)
(* bisect.bisect_right(a, x) on a 0-based list a, given here 1-based.      *)
(***************************************************************************)
RECURSIVE BisectLoop(_, _, _, _)
BisectLoop(a, x, lo, hi) ==
  IF lo < hi
  THEN LET mid == (lo + hi) \div 2
       IN  IF x < a[mid + 1]
           THEN BisectLoop(a, x, lo, mid)
           ELSE BisectLoop(a, x, mid + 1, hi)
  ELSE lo

bisect_right(a, x) == BisectLoop(a, x, 0, Len(a))

(***************************************************************************)
(* hmask (lines 133-137): the rows of hotels_df in the destination city;   *)
(* when both availability columns exist, the stay [start, return_date]     *)
(* must lie inside the row's window.  A comparison with NaT is False.      *)
(***************************************************************************)
HMask(i) ==
  LET h == hotels_df[i]
      start == ParseStart(req.start_date)[1]
      av_s == ToDate(h.av_start)
      av_e == ToDate(h.av_end)
  IN  /\ Lower(h.city) = Lower(req.destination)
      /\ (cols.av_start /\ cols.av_end) =>
           /\ av_s # NaT /\ av_s <= start
           /\ av_e # NaT /\ av_e >= ReturnDate(start, req.days)

HotelIdx == [i \in 1..Len(hotels_df) |-> i]

HasNightly(i) == NotNA(to_float(hotels_df[i].price))

\* hotels after the mask (line 139) and after dropna(subset=["_nightly"]) (line 144)
HotelRows == SelectSeq(HotelIdx, HMask)

HotelsPriced == SelectSeq(HotelRows, HasNightly)

\* hotels["_rating"] (lines 149-152)
RatingColumn ==
  IF cols.rating
  THEN ApplyToFloat([k \in DOMAIN HotelsPriced |-> hotels_df[HotelsPriced[k]].rating])
  ELSE [k \in DOMAIN HotelsPriced |-> None]

\* the working frame `hotels` with its three computed columns (lines 143-152)
HotelFrame ==
  [k \in DOMAIN HotelsPriced |->
     [row |-> HotelsPriced[k],
      nightly |-> to_float(hotels_df[HotelsPriced[k]].price),
      total_hotel |-> to_float(hotels_df[HotelsPriced[k]].price) * Nights(req.days),
      rating |-> RatingColumn[k]]]

(***************************************************************************)
(* hotels.sort_values(by="_total_hotel", ascending=False) (line 154).  The *)
(* default sort kind is not stable, so rows of equal _total_hotel may come *)
(* out in any order: every descending arrangement is a possible outcome.   *)
(***************************************************************************)
Arrangements(n) == {p \in [1..n -> 1..n] : \A a, b \in 1..n : a # b => p[a] # p[b]}

\* the sort key, column _total_hotel
SortKeys(frame) == [k \in DOMAIN frame |-> frame[k].total_hotel]

\* the orders in which an argsort may deliver the positions of keys, descending
DescendingOrders(keys) ==
  {q \in Arrangements(Len(keys)) :
     \A a, b \in 1..Len(keys) : a < b => keys[q[a]] >= keys[q[b]]}

Take(frame, order) == [k \in DOMAIN frame |-> frame[order[k]]]

(***************************************************************************)
(* The sort is a fixed algorithm: unstable, but a function of the key      *)
(* column.  argsort holds the key column of the last sort and the order it *)
(* delivered; sorting the same keys again delivers the same order.         *)
(***************************************************************************)
NoArgsort == [keys |-> <<>>, order |-> <<>>]

ArgsortOf(keys, memo) ==
  IF memo.keys = keys THEN {memo.order} ELSE DescendingOrders(keys)

(***************************************************************************)
(* One iteration of the search loop (lines 160-199) for hotel h, with the  *)
(* sorted round trips rts and the best candidate b found so far.           *)
(***************************************************************************)
Remain(h) == req.budget - h.total_hotel

\* variant: the cheapest round trip is taken whenever it fits
PickIdxCheapest(rts, h) == IF rts[1].roundtrip_price_usd <= Remain(h) THEN 0 ELSE -1

\* idx = bisect.bisect_right(rt_prices, remain) - 1, 0-based
PickIdx(rts, h) == bisect_right(RtPrices(rts), Remain(h)) - 1

Skipped(rts, h) == Remain(h) < 0 \/ PickIdx(rts, h) < 0

Picked(rts, h) == rts[PickIdx(rts, h) + 1]

CandidateTotal(rts, h) == Picked(rts, h).roundtrip_price_usd + h.total_hotel

\* curr_rating > prev_rating on floats: False when either is nan
FloatGt(a, b) == a # NaN /\ b # NaN /\ a > b

\* variant: the budget test is strict
StrictBranchBelow(rts, h, b) ==
  CandidateTotal(rts, h) > b.total /\ CandidateTotal(rts, h) < req.budget

StrictBranch(rts, h, b) ==
  CandidateTotal(rts, h) > b.total /\ CandidateTotal(rts, h) <= req.budget

TieBranch(rts, h, b) ==
  /\ ~StrictBranch(rts, h, b)
  /\ Abs(CandidateTotal(rts, h) - b.total) < Epsilon
  /\ b.h # <<>>
  /\ b.f # <<>>

\* variant: an equal round-trip price also replaces the best candidate
ImprovedOrEqual(rts, h, b) ==
  LET curr_rating == h.rating
      prev_rating == b.h[1].rating
  IN  IF curr_rating # None /\ prev_rating # None /\ FloatGt(curr_rating, prev_rating)
      THEN TRUE
      ELSE IF curr_rating # None /\ prev_rating = None
      THEN TRUE
      ELSE Picked(rts, h).roundtrip_price_usd >= b.f[1].roundtrip_price_usd

\* the `improved` flag of lines 185-191
Improved(rts, h, b) ==
  LET curr_rating == h.rating
      prev_rating == b.h[1].rating
  IN  IF curr_rating # None /\ prev_rating # None /\ FloatGt(curr_rating, prev_rating)
      THEN TRUE
      ELSE IF curr_rating # None /\ prev_rating = None
      THEN TRUE
      ELSE Picked(rts, h).roundtrip_price_usd > b.f[1].roundtrip_price_usd

\* variant: the stored total charges one night per day of the trip
InstallPerDay(rts, h) ==
  [total |-> Picked(rts, h).roundtrip_price_usd + h.nightly * req.days,
   f |-> <<Picked(rts, h)>>, h |-> <<h>>]

Install(rts, h) == [total |-> CandidateTotal(rts, h), f |-> <<Picked(rts, h)>>, h |-> <<h>>]

\* best_total, best_f, best_h before the loop (lines 156-158)
NoBest == [total |-> InitialBestTotal, f |-> <<>>, h |-> <<>>]

\* the (None, None, None) return value
NoMatch == [flight |-> <<>>, hotel |-> <<>>, total |-> <<>>]

(***************************************************************************)
(* Catalog rows and the inputs of the model.  A flight row carries the     *)
(* logical fields origin, destination, date, direction, price; a hotel row *)
(* city, price, rating, av_start, av_end.  cols says, for each logical     *)
(* field, whether the catalog has a column for it (_col found one of the   *)
(* field's aliases among the headers, lines 60-70); a row's cell under a   *)
(* missing column is never read.                                           *)
(***************************************************************************)
Flight(o, d, date, dir, price) ==
  [origin |-> o, destination |-> d, date |-> date, direction |-> dir, price |-> price]

Hotel(city, price, rating, av_s, av_e) ==
  [city |-> city, price |-> price, rating |-> rating, av_start |-> av_s, av_end |-> av_e]

Request(start, days, budget, max_pairs) ==
  [origin |-> "nyc", destination |-> "Lon", start_date |-> start, days |-> days,
   budget |-> budget, max_pairs |-> max_pairs]

Columns(dir, rating, av_s, av_e) ==
  [origin |-> TRUE, destination |-> TRUE, date |-> TRUE, price |-> TRUE,
   city |-> TRUE, nightly |-> TRUE,
   direction |-> dir, rating |-> rating, av_start |-> av_s, av_end |-> av_e]

\* the six fields find_options cannot do without (line 72)
RequiredFields == {"origin", "destination", "date", "price", "city", "nightly"}

\* all([f_origin, f_dest, f_date, f_price, h_city, h_price])
SchemaOk(c) == c.origin /\ c.destination /\ c.date /\ c.price /\ c.city /\ c.nightly

SeqsUpTo(S, n) == UNION {[1..k -> S] : k \in 0..n}

\* fares: a trip of two days starting on day 1; outbound and return legs at
\* two prices, and a leg whose price does not parse
FareFlightRows ==
  {Flight("NYC", "LON", 1, "OUTBOUND", 1), Flight("NYC", "LON", 1, "OUTBOUND", 2),
   Flight("LON", "NYC", 2, "RETURN", 1), Flight("LON", "NYC", 2, "RETURN", 2),
   Flight("NYC", "LON", 1, "outbound", BadCell)}

FareHotelRows ==
  {Hotel("LON", 1, NaN, NaN, NaN), Hotel("LON", 2, NaN, NaN, NaN),
   Hotel("PAR", 1, NaN, NaN, NaN)}

PairCaps == {1, MaxPairsCap, DefaultMaxPairs}

InitFares ==
  /\ flights_df \in SeqsUpTo(FareFlightRows, MaxFlights)
  /\ hotels_df \in SeqsUpTo(FareHotelRows, MaxHotels)
  /\ cols = Columns(TRUE, FALSE, FALSE, FALSE)
  /\ req \in {Request(1, 2, b, c) : b \in (MaxBudget - 1)..MaxBudget, c \in PairCaps}

\* ties: four fares giving the round-trip prices 2, 3, 3, 4, and rated hotels
TieFlights ==
  <<Flight("NYC", "LON", 1, "OUTBOUND", 1), Flight("NYC", "LON", 1, "OUTBOUND", 2),
    Flight("LON", "NYC", 2, "RETURN", 1), Flight("LON", "NYC", 2, "RETURN", 2)>>

Ratings == {1, 2, NaN, BadCell}

TieHotelRows == {Hotel("LON", p, r, NaN, NaN) : p \in {1, 2}, r \in Ratings}

InitTies ==
  /\ flights_df = TieFlights
  /\ \/ /\ cols = Columns(TRUE, TRUE, FALSE, FALSE)
        /\ hotels_df \in SeqsUpTo(TieHotelRows, MaxTieHotels)
     \/ /\ cols = Columns(FALSE, FALSE, FALSE, FALSE)
        /\ hotels_df \in SeqsUpTo({Hotel("LON", p, NaN, NaN, NaN) : p \in {1, 2}},
                                  MaxTieHotels)
  /\ req \in {Request(1, 2, b, DefaultMaxPairs) : b \in 3..MaxBudget}

\* availability windows
AvailHotelRows ==
  {Hotel("LON", 1, NaN, s, e) : s \in {1, 2, NaN}, e \in {1, MaxDays, NaN, BadCell}}

InitAvailability ==
  /\ \E d \in 1..MaxDays :
       /\ flights_df = <<Flight("NYC", "LON", 1, "", 1), Flight("LON", "NYC", d, "", 1)>>
       /\ req = Request(1, d, MaxBudget, DefaultMaxPairs)
  /\ \/ /\ cols \in {Columns(FALSE, FALSE, TRUE, TRUE)}
        /\ hotels_df \in SeqsUpTo(AvailHotelRows, MaxHotels)
     \/ /\ cols \in {Columns(FALSE, FALSE, FALSE, FALSE), Columns(FALSE, FALSE, TRUE, FALSE)}
        /\ hotels_df \in SeqsUpTo({Hotel("LON", 1, NaN, NaN, NaN)}, MaxHotels)

\* trip lengths and dates
DayFlightRows ==
  {Flight("NYC", "LON", d, "OUTBOUND", 1) : d \in {1, 2, BadCell}}
    \cup {Flight("LON", "NYC", d, "RETURN", 1) : d \in 1..(MaxDays + 1)}

InitDays ==
  /\ flights_df \in SeqsUpTo(DayFlightRows, 2)
  /\ hotels_df \in SeqsUpTo({Hotel("LON", 1, NaN, NaN, NaN)}, 1)
  /\ cols = Columns(TRUE, FALSE, FALSE, FALSE)
  /\ req \in {Request(s, d, MaxBudget, DefaultMaxPairs) : s \in {1, 2, BadCell}, d \in 1..MaxDays}

\* edge values: free legs and hotels, a budget of 0, every small cap from 0 up,
\* and legs written in another letter case or flying the wrong way
FreeFlights ==
  <<Flight("NYC", "LON", 1, "OUTBOUND", 0), Flight("LON", "NYC", 2, "RETURN", 0)>>

CasedFlights ==
  <<Flight("nyc", "lon", 1, "outbound", 1), Flight("NYC", "LON", 1, "RETURN", 1),
    Flight("lon", "nyc", 2, "return", 1), Flight("LON", "NYC", 2, "OUTBOUND", 1)>>

InitEdges ==
  /\ flights_df \in {TieFlights, FreeFlights, CasedFlights}
  /\ hotels_df \in SeqsUpTo({Hotel("LON", p, NaN, NaN, NaN) : p \in 0..2}, 1)
  /\ cols = Columns(TRUE, FALSE, FALSE, FALSE)
  /\ req \in {Request(1, 2, b, c) : b \in 0..MaxBudget, c \in 0..(MaxPairsCap + 2)}

\* reordering: fewer kinds of rows, so that every row order can be tried
ShuffleFlightRows ==
  {Flight("NYC", "LON", 1, "OUTBOUND", 1), Flight("NYC", "LON", 1, "OUTBOUND", 2),
   Flight("LON", "NYC", 2, "RETURN", 1), Flight("NYC", "LON", 1, "RETURN", 1)}

InitShuffleFares ==
  /\ flights_df \in SeqsUpTo(ShuffleFlightRows, MaxFlights)
  /\ hotels_df \in SeqsUpTo(FareHotelRows, MaxHotels)
  /\ cols = Columns(TRUE, FALSE, FALSE, FALSE)
  /\ req \in {Request(1, 2, b, c) : b \in (MaxBudget - 1)..MaxBudget, c \in {1, DefaultMaxPairs}}

\* prices written as text, with separators and blanks, or not a number at
\* all; unparseable dates; budgets on both sides of a thousand
TextFlightRows ==
  {Flight("NYC", "LON", 1, "OUTBOUND", p) : p \in {1, Text(1), Text(3)}}
    \cup {Flight("LON", "NYC", 2, "RETURN", p) : p \in {1, Text(2)}}
    \cup {Flight("NYC", "LON", BadCell, "OUTBOUND", 1)}

TextHotelRows ==
  {Hotel("LON", p, NaN, 1, e) : p \in {1, Text(1), Text(4)}, e \in {MaxDays, BadCell}}

InitTexts ==
  /\ flights_df \in SeqsUpTo(TextFlightRows, MaxFlights)
  /\ hotels_df \in SeqsUpTo(TextHotelRows, MaxHotels)
  /\ cols = Columns(TRUE, FALSE, TRUE, TRUE)
  /\ req \in {Request(1, 2, b, DefaultMaxPairs) : b \in {MaxBudget, 2000 + MaxBudget}}

\* three hotels that tie at the budget, two of them rated
InitFewTies ==
  /\ flights_df = TieFlights
  /\ hotels_df = <<Hotel("LON", 1, 1, NaN, NaN), Hotel("LON", 2, BadCell, NaN, NaN),
                   Hotel("LON", 1, 2, NaN, NaN)>>
  /\ cols = Columns(TRUE, TRUE, FALSE, FALSE)
  /\ req \in {Request(1, 2, b, DefaultMaxPairs) : b \in 2..MaxBudget}

\* schemas: a catalog that lacks the column of one required field
InitSchema ==
  /\ flights_df = TieFlights
  /\ hotels_df = <<Hotel("LON", 1, NaN, NaN, NaN)>>
  /\ cols \in {[Columns(TRUE, FALSE, FALSE, FALSE) EXCEPT ![f] = FALSE] : f \in RequiredFields}
  /\ req = Request(1, 2, MaxBudget, DefaultMaxPairs)

(***************************************************************************)
(* The state of the chat: the fields of GraphState (src/src/state.py) that *)
(* app.py keeps between turns, plus last_receipt_path.  An Optional field  *)
(* is a sequence of length 0 or 1; a missing key reads as None / False.    *)
(***************************************************************************)
TripFields == {"destination", "days", "start_date", "budget", "origin"}

EmptyTrip == [f \in TripFields |-> <<>>]

\* st.session_state.agent_state = {"messages": []}
EmptyState ==
  [trip_request |-> EmptyTrip, itinerary_text |-> <<>>, flight_option |-> <<>>,
   hotel_option |-> <<>>, total_price |-> <<>>, awaiting_consent |-> FALSE,
   consent_granted |-> <<>>, last_receipt_path |-> <<>>]

\* find_options called on its own: no controller is running
ChatOff ==
  /\ agent_state = EmptyState
  /\ call_state = EmptyState
  /\ cpc = "none"
  /\ tool_calls = <<>>
  /\ last_tool = <<>>
  /\ receipts = <<>>
  /\ messages = <<>>
  /\ user_text = <<>>

Fresh ==
  /\ pc = "start"
  /\ roundtrips = <<>>
  /\ hotels_sorted = <<>>
  /\ pos = 0
  /\ best = NoBest
  /\ result = NoMatch
  /\ prev = <<>>
  /\ argsort = NoArgsort
  /\ ChatOff

Init ==
  /\ InitFares \/ InitTies \/ InitAvailability \/ InitDays \/ InitEdges \/ InitSchema
  /\ Fresh

(***************************************************************************)
(* find_options, lines 60-154: the early returns and the preparation of    *)
(* the sorted round trips and the sorted hotels.  (The return of lines     *)
(* 127-128 cannot happen: with out and ret non-empty the loop appends at   *)
(* least one round trip before it tests the cap.)                          *)
(***************************************************************************)
StartOk == SchemaOk(cols) /\ ParseStart(req.start_date) # <<>>

FlightsOk == StartOk /\ OutPriced # <<>> /\ RetPriced # <<>>

HotelsOk == FlightsOk /\ HotelsPriced # <<>>

ReturnNone ==
  /\ pc' = "done"
  /\ result' = NoMatch
  /\ UNCHANGED <<flights_df, hotels_df, cols, req, roundtrips, hotels_sorted, pos, best, prev, argsort>>
  /\ UNCHANGED chat

\* lines 72-73
MissingColumn == pc = "start" /\ ~SchemaOk(cols) /\ ReturnNone

\* lines 75-78
BadStartDate == pc = "start" /\ SchemaOk(cols) /\ ~StartOk /\ ReturnNone

\* lines 101-102 and 108-109
NoFlights == pc = "start" /\ StartOk /\ ~FlightsOk /\ ReturnNone

\* lines 140-141 and 145-146
NoHotels == pc = "start" /\ FlightsOk /\ ~HotelsOk /\ ReturnNone

\* variant: the price column of the catalog is parsed in place
ParsedInPlace(df) == [i \in DOMAIN df |-> [df[i] EXCEPT !.price = to_float(@)]]

\* out, ret and hotels are copies (lines 90, 99, 139): the computed columns
\* _price, _nightly, _total_hotel and _rating are added to the copies, and the
\* catalog keeps its rows and cells
AfterCopy(df) == df

Prepare ==
  /\ pc = "start"
  /\ HotelsOk
  /\ roundtrips' = SortByPrice(Enumerate(OutPriced, RetPriced, req.max_pairs))
  /\ \E order \in ArgsortOf(SortKeys(HotelFrame), argsort) :
       /\ hotels_sorted' = Take(HotelFrame, order)
       /\ argsort' = [keys |-> SortKeys(HotelFrame), order |-> order]
  /\ best' = NoBest
  /\ pos' = 1
  /\ pc' = "loop"
  /\ flights_df' = AfterCopy(flights_df)
  /\ hotels_df' = AfterCopy(hotels_df)
  /\ UNCHANGED <<cols, req, result, prev>>
  /\ UNCHANGED chat

(***************************************************************************)
(* The search loop, lines 160-199, one hotel per step.                     *)
(***************************************************************************)
InLoop == pc = "loop" /\ pos <= Len(hotels_sorted)

Advance(b) ==
  /\ best' = b
  /\ pos' = pos + 1
  /\ UNCHANGED <<flights_df, hotels_df, cols, req, pc, roundtrips, hotels_sorted, result, prev, argsort>>
  /\ UNCHANGED chat

\* lines 163-168: continue
SkipHotel ==
  /\ InLoop
  /\ Skipped(roundtrips, hotels_sorted[pos])
  /\ Advance(best)

\* lines 174-181
StrictImprove ==
  /\ InLoop
  /\ ~Skipped(roundtrips, hotels_sorted[pos])
  /\ StrictBranch(roundtrips, hotels_sorted[pos], best)
  /\ Advance(Install(roundtrips, hotels_sorted[pos]))

\* lines 182-199 with improved = True
TieImprove ==
  /\ InLoop
  /\ ~Skipped(roundtrips, hotels_sorted[pos])
  /\ TieBranch(roundtrips, hotels_sorted[pos], best)
  /\ Improved(roundtrips, hotels_sorted[pos], best)
  /\ Advance(Install(roundtrips, hotels_sorted[pos]))

\* neither branch taken, or the tie branch with improved = False
KeepBest ==
  /\ InLoop
  /\ ~Skipped(roundtrips, hotels_sorted[pos])
  /\ ~StrictBranch(roundtrips, hotels_sorted[pos], best)
  /\ TieBranch(roundtrips, hotels_sorted[pos], best)
       => ~Improved(roundtrips, hotels_sorted[pos], best)
  /\ Advance(best)

(***************************************************************************)
(* lines 201-208: the return value.  best_h loses its computed fields, so  *)
(* the hotel returned is the catalog row itself.                           *)
(***************************************************************************)
LoopDone == pc = "loop" /\ pos > Len(hotels_sorted)

\* variant: a total of zero counts as nothing found
NothingFoundFalsy == best.f = <<>> \/ best.h = <<>> \/ best.total <= 0

NothingFound == best.f = <<>> \/ best.h = <<>> \/ best.total < 0

ReturnNoMatch == LoopDone /\ NothingFound /\ ReturnNone

ReturnResult ==
  /\ LoopDone
  /\ ~NothingFound
  /\ pc' = "done"
  /\ result' = [flight |-> best.f, hotel |-> <<hotels_df[best.h[1].row]>>, total |-> <<best.total>>]
  /\ UNCHANGED <<flights_df, hotels_df, cols, req, roundtrips, hotels_sorted, pos, best, prev, argsort>>
  /\ UNCHANGED chat

Next ==
  \/ MissingColumn
  \/ BadStartDate
  \/ NoFlights
  \/ NoHotels
  \/ Prepare
  \/ SkipHotel
  \/ StrictImprove
  \/ TieImprove
  \/ KeepBest
  \/ ReturnNoMatch
  \/ ReturnResult

Spec == Init /\ [][Next]_vars

(***************************************************************************)
(* A caller that searches again over the same rows in another row order    *)
(* (the catalogs are reloaded or shuffled between two calls); prev keeps   *)
(* the total the previous call returned (empty for no match).              *)
(***************************************************************************)
RowOrders(s) == {[k \in DOMAIN s |-> s[p[k]]] : p \in Arrangements(Len(s))}

Reorder ==
  /\ pc = "done"
  /\ flights_df' \in RowOrders(flights_df)
  /\ hotels_df' \in RowOrders(hotels_df)
  /\ prev' = <<result.total>>
  /\ pc' = "start"
  /\ roundtrips' = <<>>
  /\ hotels_sorted' = <<>>
  /\ pos' = 0
  /\ best' = NoBest
  /\ result' = NoMatch
  /\ UNCHANGED <<cols, req, argsort>>
  /\ UNCHANGED chat

NextShuffle == Next \/ Reorder

InitShuffle ==
  /\ InitShuffleFares \/ InitDays \/ InitSchema
  /\ Fresh

SpecShuffle == InitShuffle /\ [][NextShuffle]_vars

(***************************************************************************)
(* The value find_options returns, as the caller sees it: the legs are the *)
(* rows' contents (o.to_dict(), r.to_dict()), not their positions.         *)
(***************************************************************************)
ResultView ==
  IF result.total = <<>> THEN NoMatch
  ELSE [flight |-> <<[outbound |-> flights_df[result.flight[1].outbound],
                      return |-> flights_df[result.flight[1].return],
                      roundtrip_price_usd |-> result.flight[1].roundtrip_price_usd]>>,
        hotel |-> result.hotel,
        total |-> result.total]

(***************************************************************************)
(* A caller that calls find_options again: with the same catalogs and      *)
(* request (Repeat), or with one row removed whose price or date does not  *)
(* parse (DropRow).  prev keeps what the previous call returned.           *)
(***************************************************************************)
CallAgain(how) ==
  /\ pc = "done"
  /\ prev' = <<[how |-> how, returned |-> ResultView]>>
  /\ pc' = "start"
  /\ roundtrips' = <<>>
  /\ hotels_sorted' = <<>>
  /\ pos' = 0
  /\ best' = NoBest
  /\ UNCHANGED <<cols, req, result, argsort>>
  /\ UNCHANGED chat

Repeat ==
  /\ CallAgain("same")
  /\ UNCHANGED <<flights_df, hotels_df>>

Remove(rows, i) == SubSeq(rows, 1, i - 1) \o SubSeq(rows, i + 1, Len(rows))

UnparseableFlight(i) ==
  to_float(flights_df[i].price) = None \/ flights_df[i].date = BadCell

UnparseableHotel(i) ==
  \/ to_float(hotels_df[i].price) = None
  \/ /\ cols.av_start /\ cols.av_end
     /\ hotels_df[i].av_start = BadCell \/ hotels_df[i].av_end = BadCell

DropRow ==
  /\ CallAgain("dropped")
  /\ \/ /\ \E i \in DOMAIN flights_df :
             UnparseableFlight(i) /\ flights_df' = Remove(flights_df, i)
        /\ UNCHANGED hotels_df
     \/ /\ \E i \in DOMAIN hotels_df :
             UnparseableHotel(i) /\ hotels_df' = Remove(hotels_df, i)
        /\ UNCHANGED flights_df

NextAgain == Next \/ Repeat \/ DropRow

InitAgain ==
  /\ InitTexts \/ InitFewTies \/ InitDays \/ InitSchema
  /\ Fresh

SpecAgain == InitAgain /\ [][NextAgain]_vars

(***************************************************************************)
(* The chat controller, src/src/graph/build_graph.py, with the tool calls  *)
(* of src/src/agents/model_tools.py and the receipts of                    *)
(* src/src/utils/booking.py.  app.py runs one controller turn per user     *)
(* message and keeps every field of the returned state but the messages.   *)
(* The text-generation model is outside the program: what it extracts from *)
(* a message and which tool calls it emits, with which arguments, is any   *)
(* value of a small set.                                                   *)
(***************************************************************************)
MaxToolCalls == 2
MaxReceipts == 2

\* the words of _contains_yes and _contains_no, as character sequences
YesWords ==
  {<<"y", "e", "s">>,
   <<"y", "e", "p">>,
   <<"y", "e", "a", "h">>,
   <<"y", "a">>,
   <<"s", "u", "r", "e">>,
   <<"c", "o", "n", "f", "i", "r", "m">>,
   <<"b", "o", "o", "k">>,
   <<"g", "o", " ", "a", "h", "e", "a", "d">>}

NoWords ==
  {<<"n", "o">>,
   <<"n", "o", "p", "e">>,
   <<"n", "a", "h">>,
   <<"c", "a", "n", "c", "e", "l">>,
   <<"s", "t", "o", "p">>,
   <<"d", "o", "n", "'", "t">>,
   <<"d", "o", " ", "n", "o", "t">>}

\* str.lower() on the letters the user texts are written with
LowerChar(c) ==
  CASE c = "Y" -> "y"
    [] c = "N" -> "n"
    [] c = "D" -> "d"
    [] OTHER -> c

LowerText(t) == [k \in DOMAIN t |-> LowerChar(t[k])]

\* w in t: w is a substring of t
In(w, t) == \E k \in 1..(Len(t) - Len(w) + 1) : SubSeq(t, k, k + Len(w) - 1) = w

contains_yes(text) == \E w \in YesWords : In(w, LowerText(text))

contains_no(text) == \E w \in NoWords : In(w, LowerText(text))

\* what the user may type: "Yes", "no", "Don't book", "ok", "nyc to lon"
UserTexts ==
  {<<"Y", "e", "s">>,
   <<"n", "o">>,
   <<"D", "o", "n", "'", "t", " ", "b", "o", "o", "k">>,
   <<"o", "k">>,
   <<"n", "y", "c", " ", "t", "o", " ", "l", "o", "n">>}

(***************************************************************************)
(* The trip request.  extract_request_with_llm returns the fields the      *)
(* model found in the message; the controller merges the ones that are not *)
(* None into trip_request (lines 70-76).                                   *)
(***************************************************************************)
Trip(dest, days, start, budget, origin) ==
  [destination |-> dest, days |-> days, start_date |-> start, budget |-> budget,
   origin |-> origin]

Extractions ==
  {EmptyTrip,
   Trip(<<"Lon">>, <<>>, <<>>, <<>>, <<>>),
   Trip(<<"Lon">>, <<2>>, <<>>, <<>>, <<>>),
   Trip(<<>>, <<>>, <<1>>, <<0>>, <<"nyc">>),
   Trip(<<"Lon">>, <<2>>, <<1>>, <<MaxBudget - 1>>, <<"nyc">>)}

\* tr.update({k: v for k, v in extracted.items() if v is not None})
Merge(tr, extracted) ==
  [f \in TripFields |-> IF extracted[f] # <<>> THEN extracted[f] ELSE tr[f]]

\* tr.get(k) is truthy: present, and not 0 for the numeric fields
Has(tr, f) == tr[f] # <<>> /\ (f \in {"days", "budget"} => tr[f][1] # 0)

\* missing = [k for k in ["start_date", "budget", "origin"] if not tr.get(k)]
Missing(tr) == {f \in {"start_date", "budget", "origin"} : ~Has(tr, f)}

\* draft_itinerary_with_llm: some non-empty text
Itinerary == "plan"

WithItinerary(st) ==
  IF st.itinerary_text = <<>> THEN [st EXCEPT !.itinerary_text = <<Itinerary>>] ELSE st

(***************************************************************************)
(* Tool calls.  A call is a name with arguments.  The arguments of         *)
(* search_inventory are a request; those of book_trip the five fields of   *)
(* TOOLS_BOOK (itinerary_text is carried with the others).                 *)
(***************************************************************************)
BookCall(a) == [name |-> "book_trip", args |-> a]

OtherCall == [name |-> "other", args |-> <<>>]

\* the arguments the model may give search_inventory: a trip that ties at the
\* budget, a budget too small, a start date that does not parse, a stay past
\* the hotels' window, a return date without flights
SearchArgs ==
  {Request(1, 2, MaxBudget - 1, DefaultMaxPairs),
   Request(1, 2, 2, DefaultMaxPairs),
   Request(BadCell, 2, MaxBudget - 1, DefaultMaxPairs),
   Request(1, 3, MaxBudget - 1, DefaultMaxPairs),
   Request(1, 4, MaxBudget - 1, DefaultMaxPairs)}

\* the payload book_with_tools shows the model (lines 249-255)
BookingPayload(st) ==
  [trip_request |-> st.trip_request,
   itinerary_text |-> st.itinerary_text,
   flight_option |-> st.flight_option,
   hotel_option |-> st.hotel_option,
   total_price_usd |-> IF st.total_price = <<>> THEN 0 ELSE st.total_price[1]]

\* the arguments the model may give book_trip: the payload, or the payload
\* with another total, or with another trip request
BookArgs(payload) ==
  {payload,
   [payload EXCEPT !.total_price_usd = 0],
   [payload EXCEPT !.trip_request = EmptyTrip]}

\* book_and_write_receipt: the receipt written for the arguments (lines 66-84)
Receipt(args) ==
  [trip_request |-> args.trip_request,
   itinerary_markdown |-> args.itinerary_text,
   flight_option |-> args.flight_option,
   hotel_option |-> args.hotel_option,
   total_price_usd |-> args.total_price_usd]

ToolResult(status, written) == [status |-> status, written |-> written]

\* variant: the booking gate is open whoever calls
AllowBookingAlways == TRUE

\* search_with_tools: _exec_tool(name, args, allow_booking=False) (line 184)
AllowBookingInSearch == FALSE

(***************************************************************************)
(* _exec_tool for book_trip and for unknown names (lines 96-121): the      *)
(* result, and the receipts written.  search_inventory called from         *)
(* book_with_tools runs find_options, which writes nothing and whose       *)
(* result carries no receipt_path.                                         *)
(***************************************************************************)
exec_tool(call, allow_booking) ==
  IF call.name = "book_trip"
  THEN IF ~allow_booking
       THEN ToolResult("blocked", <<>>)
       ELSE ToolResult("ok", <<Receipt(call.args)>>)
  ELSE IF call.name = "search_inventory"
  THEN ToolResult("searched", <<>>)
  ELSE ToolResult("error", <<>>)

\* the tool loop of book_with_tools (lines 274-292): the receipts written by
\* the calls, in order
RECURSIVE Written(_, _)
Written(calls, allow_booking) ==
  IF calls = <<>> THEN <<>>
  ELSE exec_tool(Head(calls), allow_booking).written \o Written(Tail(calls), allow_booking)

\* receipt_path (lines 302-304): the path of the receipt the last call wrote
ReceiptPath(calls, allow_booking, known) ==
  IF calls # <<>> /\ exec_tool(calls[Len(calls)], allow_booking).written # <<>>
  THEN <<Len(known) + Len(Written(calls, allow_booking))>>
  ELSE <<>>

BookCallSeqs(payload) ==
  SeqsUpTo({BookCall(a) : a \in BookArgs(payload)} \cup {OtherCall}, MaxToolCalls)

\* the tool calls of the model's answer in search_with_tools, by name; the
\* arguments of a call are read when the call is executed
SearchCallSeqs == SeqsUpTo({"search_inventory", "book_trip", "other"}, MaxToolCalls)

\* what the user types when no confirmation is asked for: the text bears only
\* on what the model extracts, which is any of Extractions
RequestTexts == {<<"Y", "e", "s">>, <<"n", "y", "c", " ", "t", "o", " ", "l", "o", "n">>}

(***************************************************************************)
(* One controller turn (controller, lines 36-126): app.py hands it the     *)
(* kept state and the user's message.  The turns of the consent branch and *)
(* the turns that end before the search are one step each; a turn that     *)
(* searches runs the tool calls of search_with_tools one at a time.        *)
(***************************************************************************)
searching == <<flights_df, hotels_df, cols, req, pc, roundtrips, hotels_sorted, pos, best,
               result, prev, argsort>>

EndTurn(st, said, text) ==
  /\ agent_state' = st
  /\ call_state' = st
  /\ messages' = said
  /\ user_text' = text
  /\ cpc' = "idle"
  /\ tool_calls' = <<>>
  /\ last_tool' = <<>>

\* lines 43-58: the reply confirms
ConsentYes ==
  /\ cpc = "idle"
  /\ agent_state.awaiting_consent
  /\ \E text \in UserTexts, calls \in BookCallSeqs(BookingPayload(agent_state)) :
       LET path == ReceiptPath(calls, TRUE, receipts)
           st == [agent_state EXCEPT !.awaiting_consent = FALSE,
                                     !.consent_granted = <<TRUE>>,
                                     !.last_receipt_path = IF @ = <<>> THEN path ELSE @]
       IN  /\ contains_yes(text)
           /\ Len(receipts) + Len(Written(calls, TRUE)) <= MaxReceipts
           /\ receipts' = receipts \o Written(calls, TRUE)
           /\ EndTurn(st, <<"booking">>, text)
  /\ UNCHANGED searching

\* lines 43-52 when a call of the model, or the second request to the model
\* (lines 295-299), raises after receipts were written: the turn ends with
\* the exception and app.py keeps the state of before the turn
ConsentYesRaises ==
  /\ cpc = "idle"
  /\ agent_state.awaiting_consent
  /\ \E text \in UserTexts, calls \in BookCallSeqs(BookingPayload(agent_state)) :
       /\ contains_yes(text)
       /\ Written(calls, TRUE) # <<>>
       /\ Len(receipts) + Len(Written(calls, TRUE)) <= MaxReceipts
       /\ receipts' = receipts \o Written(calls, TRUE)
       /\ EndTurn(agent_state, <<>>, text)
  /\ UNCHANGED searching

\* lines 60-64: the reply declines
ConsentNo ==
  /\ cpc = "idle"
  /\ agent_state.awaiting_consent
  /\ \E text \in UserTexts :
       /\ ~contains_yes(text)
       /\ contains_no(text)
       /\ EndTurn([agent_state EXCEPT !.awaiting_consent = FALSE,
                                      !.consent_granted = <<FALSE>>],
                  <<"cancelled">>, text)
  /\ UNCHANGED receipts
  /\ UNCHANGED searching

\* lines 66-67: neither
Reprompt ==
  /\ cpc = "idle"
  /\ agent_state.awaiting_consent
  /\ \E text \in UserTexts :
       /\ ~contains_yes(text)
       /\ ~contains_no(text)
       /\ EndTurn(agent_state, <<"reprompt">>, text)
  /\ UNCHANGED receipts
  /\ UNCHANGED searching

\* lines 70-74: the state with the extracted fields merged in.  (The guard of
\* lines 82-84 never fires: normalized() has removed a destination that is
\* not among KNOWN_DESTS before the merge.)
Parsed(extracted) ==
  [agent_state EXCEPT !.trip_request = Merge(@, extracted)]

\* lines 86-88
AskDestination ==
  /\ cpc = "idle"
  /\ ~agent_state.awaiting_consent
  /\ \E text \in RequestTexts, extracted \in Extractions :
       /\ ~Has(Parsed(extracted).trip_request, "destination")
       /\ EndTurn(Parsed(extracted), <<"where">>, text)
  /\ UNCHANGED receipts
  /\ UNCHANGED searching

\* lines 90-93
AskDays ==
  /\ cpc = "idle"
  /\ ~agent_state.awaiting_consent
  /\ \E text \in RequestTexts, extracted \in Extractions :
       /\ Has(Parsed(extracted).trip_request, "destination")
       /\ ~Has(Parsed(extracted).trip_request, "days")
       /\ EndTurn(Parsed(extracted), <<"how long">>, text)
  /\ UNCHANGED receipts
  /\ UNCHANGED searching

\* lines 96-106
AskMissing ==
  /\ cpc = "idle"
  /\ ~agent_state.awaiting_consent
  /\ \E text \in RequestTexts, extracted \in Extractions :
       /\ Has(Parsed(extracted).trip_request, "destination")
       /\ Has(Parsed(extracted).trip_request, "days")
       /\ Missing(Parsed(extracted).trip_request) # {}
       /\ EndTurn(WithItinerary(Parsed(extracted)),
                  IF agent_state.itinerary_text = <<>>
                  THEN <<"plan", "please provide">> ELSE <<"please provide">>,
                  text)
  /\ UNCHANGED receipts
  /\ UNCHANGED searching

\* lines 109-113 and search_with_tools up to the model's first answer
\* (lines 161-175): the tool calls it asks for
BeginSearch ==
  /\ cpc = "idle"
  /\ ~agent_state.awaiting_consent
  /\ \E text \in RequestTexts, extracted \in Extractions :
       /\ Has(Parsed(extracted).trip_request, "destination")
       /\ Has(Parsed(extracted).trip_request, "days")
       /\ Missing(Parsed(extracted).trip_request) = {}
       /\ call_state' = WithItinerary(Parsed(extracted))
       /\ messages' = IF agent_state.itinerary_text = <<>> THEN <<"plan">> ELSE <<>>
       /\ user_text' = text
  /\ tool_calls' \in SearchCallSeqs
  /\ last_tool' = <<>>
  /\ cpc' = "tools"
  /\ UNCHANGED <<agent_state, receipts>>
  /\ UNCHANGED searching

\* _exec_tool for search_inventory, lines 76-86: find_options is called on
\* the catalogs of CFG.data_dir with the arguments of the call
CallFindOptions ==
  /\ cpc = "tools"
  /\ tool_calls # <<>>
  /\ Head(tool_calls) = "search_inventory"
  /\ req' \in SearchArgs
  /\ pc' = "start"
  /\ roundtrips' = <<>>
  /\ hotels_sorted' = <<>>
  /\ pos' = 0
  /\ best' = NoBest
  /\ result' = NoMatch
  /\ cpc' = "find"
  /\ UNCHANGED <<flights_df, hotels_df, cols, prev, argsort>>
  /\ UNCHANGED <<agent_state, call_state, tool_calls, last_tool, receipts, messages, user_text>>

\* lines 87-94: the tool message of the search
SearchPayload ==
  IF result.total = <<>>
  THEN [status |-> "no_match", flight_option |-> <<>>, hotel_option |-> <<>>,
        total_price_usd |-> <<>>]
  ELSE [status |-> "ok", flight_option |-> ResultView.flight,
        hotel_option |-> ResultView.hotel, total_price_usd |-> ResultView.total]

NoPayload(status) ==
  [status |-> status, flight_option |-> <<>>, hotel_option |-> <<>>, total_price_usd |-> <<>>]

FindOptionsReturns ==
  /\ cpc = "find"
  /\ pc = "done"
  /\ last_tool' = <<SearchPayload>>
  /\ tool_calls' = Tail(tool_calls)
  /\ cpc' = "tools"
  /\ pc' = "idle"
  /\ UNCHANGED <<flights_df, hotels_df, cols, req, roundtrips, hotels_sorted, pos, best,
                 result, prev, argsort>>
  /\ UNCHANGED <<agent_state, call_state, receipts, messages, user_text>>

\* the call of that name, with arguments of the model's choice
OtherCalls(name) ==
  IF name = "book_trip"
  THEN {BookCall(a) : a \in BookArgs(BookingPayload(call_state))}
  ELSE {OtherCall}

\* line 184 for a call that is not search_inventory
ExecOtherTool ==
  /\ cpc = "tools"
  /\ tool_calls # <<>>
  /\ Head(tool_calls) # "search_inventory"
  /\ \E call \in OtherCalls(Head(tool_calls)) :
       /\ Len(receipts) + Len(exec_tool(call, AllowBookingInSearch).written) <= MaxReceipts
       /\ receipts' = receipts \o exec_tool(call, AllowBookingInSearch).written
       /\ last_tool' = <<NoPayload(exec_tool(call, AllowBookingInSearch).status)>>
  /\ tool_calls' = Tail(tool_calls)
  /\ UNCHANGED <<agent_state, call_state, cpc, messages, user_text>>
  /\ UNCHANGED searching

\* variant: the status of the last tool message is not looked at
FoundAnyStatus == last_tool # <<>>

\* lines 204-215: the last tool message carries a result
Found == last_tool # <<>> /\ last_tool[1].status = "ok"

\* lines 204-219 and controller lines 115-117: nothing to offer
SearchFailed ==
  /\ cpc = "tools"
  /\ tool_calls = <<>>
  /\ ~Found
  /\ EndTurn(call_state, Append(messages, "no options"), user_text)
  /\ UNCHANGED receipts
  /\ UNCHANGED searching

\* lines 204-217 and controller lines 120-126: the option is stored and the
\* user asked to confirm
SearchSucceeded ==
  /\ cpc = "tools"
  /\ tool_calls = <<>>
  /\ Found
  /\ EndTurn([call_state EXCEPT !.flight_option = last_tool[1].flight_option,
                                !.hotel_option = last_tool[1].hotel_option,
                                !.total_price = last_tool[1].total_price_usd,
                                !.awaiting_consent = TRUE],
             Append(messages, "summary"), user_text)
  /\ UNCHANGED receipts
  /\ UNCHANGED searching

\* a request to the model, or a call with arguments _exec_tool cannot read,
\* raises during search_with_tools: app.py keeps the state of before the turn
SearchRaises ==
  /\ cpc = "tools"
  /\ EndTurn(agent_state, <<>>, user_text)
  /\ UNCHANGED receipts
  /\ UNCHANGED searching

Controller ==
  \/ ConsentYes
  \/ ConsentYesRaises
  \/ ConsentNo
  \/ Reprompt
  \/ AskDestination
  \/ AskDays
  \/ AskMissing
  \/ BeginSearch
  \/ CallFindOptions
  \/ FindOptionsReturns
  \/ ExecOtherTool
  \/ SearchFailed
  \/ SearchSucceeded
  \/ SearchRaises

NextChat == Next \/ Controller

\* the catalogs of the chat: the four fares and a later return leg; three
\* hotels open on days 1 and 2, two of them at the same price
InitChat ==
  /\ flights_df = TieFlights \o <<Flight("LON", "NYC", 3, "RETURN", 1)>>
  /\ hotels_df = <<Hotel("LON", 1, 1, 1, 2), Hotel("LON", 1, 2, 1, 2), Hotel("LON", 2, 1, 1, 2)>>
  /\ cols \in {Columns(TRUE, TRUE, TRUE, TRUE),
               [Columns(TRUE, TRUE, TRUE, TRUE) EXCEPT !.price = FALSE]}
  /\ req = Request(1, 2, MaxBudget - 1, DefaultMaxPairs)
  /\ pc = "idle"
  /\ roundtrips = <<>>
  /\ hotels_sorted = <<>>
  /\ pos = 0
  /\ best = NoBest
  /\ result = NoMatch
  /\ prev = <<>>
  /\ argsort = NoArgsort
  /\ agent_state = EmptyState
  /\ call_state = EmptyState
  /\ cpc = "idle"
  /\ tool_calls = <<>>
  /\ last_tool = <<>>
  /\ receipts = <<>>
  /\ messages = <<>>
  /\ user_text = <<>>

SpecChat == InitChat /\ [][NextChat]_vars

(***************************************************************************)
(* Vocabulary of the properties.                                           *)
(***************************************************************************)
Elems(s) == {s[k] : k \in DOMAIN s}

\* the call has returned / has returned a result
Done == pc = "done"

Returned == pc = "done" /\ result.total # <<>>

\* the eligible legs and hotels: the rows that pass the filters and have a price
EligibleOut == IF StartOk THEN Elems(OutPriced) ELSE {}

EligibleRet == IF StartOk THEN Elems(RetPriced) ELSE {}

EligibleHotels == IF StartOk THEN Elems(HotelsPriced) ELSE {}

StayTotal(h) == hotels_df[h].price * Nights(req.days)

ComboTotal(o, r, h) == flights_df[o].price + flights_df[r].price + StayTotal(h)

\* the totals of the full cross product that fit the budget
FeasibleTotals ==
  {ComboTotal(o, r, h) : o \in EligibleOut, r \in EligibleRet, h \in EligibleHotels}
    \cap (0..req.budget)

\* the round trips the call enumerates under its cap
EnumeratedTrips ==
  IF EligibleOut # {} /\ EligibleRet # {}
  THEN Elems(Enumerate(OutPriced, RetPriced, req.max_pairs))
  ELSE {}

EnumeratedTotals ==
  {rt.roundtrip_price_usd + StayTotal(h) : rt \in EnumeratedTrips, h \in EligibleHotels}
    \cap (0..req.budget)

\* the cap does not cut the enumeration short
CapNotReached == Cardinality(EligibleOut) * Cardinality(EligibleRet) <= req.max_pairs

\* the candidates of the search loop: one per hotel that is not skipped
Candidates == {k \in DOMAIN hotels_sorted : ~Skipped(roundtrips, hotels_sorted[k])}

CandTotal(k) == CandidateTotal(roundtrips, hotels_sorted[k])

CandFlight(k) == Picked(roundtrips, hotels_sorted[k]).roundtrip_price_usd

Rated(k) == hotels_sorted[k].rating \in Nat

BestPos == CHOOSE k \in DOMAIN hotels_sorted : hotels_sorted[k] = best.h[1]

\* rating a is higher than rating b; a present rating is higher than an absent one
HigherRating(a, b) == a \in Nat /\ (b \in Nat => a > b)

\* both availability cells of hotel row i are empty
LacksWindow(i) == hotels_df[i].av_start = NaN /\ hotels_df[i].av_end = NaN

Min(a, b) == IF a <= b THEN a ELSE b

\* the pairs of the cross product out x ret in outbound-major row order
RECURSIVE PairsFrom(_, _, _, _)
PairsFrom(out, ret, i, j) ==
  IF i > Len(out) THEN <<>>
  ELSE IF j > Len(ret) THEN PairsFrom(out, ret, i + 1, 1)
  ELSE <<(<<out[i], ret[j]>>)>> \o PairsFrom(out, ret, i, j + 1)

\* the candidates whose total is the returned total
Tied == {k \in Candidates : CandTotal(k) = best.total}

(***************************************************************************)
(* C1  Budget ceiling.  The best candidate held by the search loop, and    *)
(* the total the call returns, never exceed the requested budget, whether  *)
(* the candidate was installed by the strict-improvement branch or by the  *)
(* tie-break branch.                                                       *)
(***************************************************************************)
C1_BudgetCeiling ==
  /\ best.f # <<>> => best.total <= req.budget
  /\ Returned => result.total[1] <= req.budget

\* a returned result that the tie-break branch installed: an earlier hotel of
\* the iteration had already reached the same total
C1_Witness ==
  /\ Returned
  /\ \E k \in Tied : k < BestPos

C4_Original ==
  Returned =>
    \A k \in Tied :
      (Rated(k) /\ Rated(BestPos)) =>
        ~HigherRating(hotels_sorted[k].rating, best.h[1].rating)

(***************************************************************************)
(* C5  Rated beats unrated, as claimed: when exactly two hotels tie at the *)
(* returned total, with the same stay total, one rated and one unrated,    *)
(* the rated hotel is returned.                                            *)
(***************************************************************************)
C5_Original ==
  Returned =>
    \A k, m \in Tied :
      (/\ Tied = {k, m}
       /\ hotels_sorted[k].total_hotel = hotels_sorted[m].total_hotel
       /\ Rated(k)
       /\ ~Rated(m)) => BestPos = k

(***************************************************************************)
(* C6  Secondary tie-breaks.  When the candidates whose total equals the   *)
(* returned total all have the same rating (or none has one), the returned *)
(* candidate has the highest round-trip price among them, and it is the    *)
(* first of the iteration order among those with that price.               *)
(***************************************************************************)
C6_SecondaryTieBreaks ==
  (/\ Returned
   /\ \A k, m \in Tied : hotels_sorted[k].rating = hotels_sorted[m].rating) =>
    /\ \A k \in Tied : CandFlight(k) <= best.f[1].roundtrip_price_usd
    /\ \A k \in Tied : CandFlight(k) = best.f[1].roundtrip_price_usd => BestPos <= k

\* a three-way tie with equal ratings: a cheaper round trip first, then two
\* candidates with the same, dearer round trip
C6_Witness ==
  /\ Returned
  /\ \A k, m \in Tied : hotels_sorted[k].rating = hotels_sorted[m].rating
  /\ Cardinality(Tied) >= 3
  /\ \E k \in Tied : CandFlight(k) < best.f[1].roundtrip_price_usd
  /\ \E k \in Tied : k > BestPos /\ CandFlight(k) = best.f[1].roundtrip_price_usd

(***************************************************************************)
(* C7  Order-independence, as claimed: a search over the same rows in      *)
(* another row order returns the same outcome kind and the same total.     *)
(***************************************************************************)
C7_Original ==
  (Done /\ prev # <<>>) => result.total = prev[1]

(***************************************************************************)
(* C7  Order-independence, amended: when the cap is not reached            *)
(* (|out| * |ret| <= max_pairs), a search over the same rows in another    *)
(* row order returns the same outcome kind and the same total.             *)
(***************************************************************************)
C7_OrderIndependence ==
  (Done /\ prev # <<>> /\ CapNotReached) => result.total = prev[1]

\* a second search, over reordered rows, that returns a result chosen among
\* several round trips and hotels
C7_Witness ==
  /\ Returned
  /\ prev # <<>>
  /\ CapNotReached
  /\ Cardinality(EligibleOut) >= 2
  /\ Cardinality(EligibleHotels) >= 2
  /\ flights_df[1].price > flights_df[Len(flights_df)].price

C9_Original ==
  Done =>
    \A i \in DOMAIN hotels_df :
      (/\ Lower(hotels_df[i].city) = Lower(req.destination)
       /\ hotels_df[i].price \in Nat
       /\ LacksWindow(i)
       /\ \E rt \in EnumeratedTrips : rt.roundtrip_price_usd + StayTotal(i) <= req.budget)
      => Returned

(***************************************************************************)
(* C10  Nights and return date.  Every returned result charges             *)
(* max(1, days-1) nights of the returned hotel on top of the two returned  *)
(* legs, its outbound leg is dated start_date and its return leg           *)
(* start_date + (days-1): one night and a same-day return for days = 1.    *)
(***************************************************************************)
C10_NightsAndReturnDate ==
  Returned =>
    LET o == flights_df[result.flight[1].outbound]
        r == flights_df[result.flight[1].return]
        h == result.hotel[1]
        n == IF req.days = 1 THEN 1 ELSE req.days - 1
    IN  /\ result.total[1] = o.price + r.price + h.price * n
        /\ o.date = req.start_date
        /\ r.date = req.start_date + (req.days - 1)
        /\ req.days = 1 => r.date = req.start_date
        /\ req.days = 4 => result.total[1] = o.price + r.price + h.price * 3

\* a one-day trip: one night charged, the return leg on the start date
C10_Witness ==
  /\ Returned
  /\ req.days = 1
  /\ result.total[1] = 3

(***************************************************************************)
(* C11  Schema error, as claimed: when a required field has no column the  *)
(* call ends with an outcome other than the no-match value, so that the    *)
(* caller can tell a broken catalog from a search that found nothing.      *)
(***************************************************************************)
C11_Original ==
  (Done /\ ~SchemaOk(cols)) => result # NoMatch

(***************************************************************************)
(* C12  Unparseable rows and separators.  A call made again after a row    *)
(* whose price or date does not parse was removed from a catalog returns   *)
(* what the call before it returned; and a price written "1,000" counts as *)
(* 1000, one written " 2 " as 2, in the returned round-trip price and      *)
(* total, and a leg so priced is a leg the search can return.              *)
(***************************************************************************)
C12_UnparseableRows ==
  /\ (Done /\ prev # <<>> /\ prev[1].how = "dropped") => ResultView = prev[1].returned
  /\ (/\ Done
      /\ req.budget >= 2000
      /\ \E i \in Elems(OutRows) : flights_df[i].price = Text(1)
      /\ EligibleRet # {}
      /\ EligibleHotels # {}) => Returned
  /\ Returned =>
       LET o == flights_df[result.flight[1].outbound]
           r == flights_df[result.flight[1].return]
           h == result.hotel[1]
       IN  /\ (o.price = Text(1) /\ r.price = Text(2)) =>
                result.flight[1].roundtrip_price_usd = 1002
           /\ (o.price = Text(1) /\ r.price = 1) =>
                result.flight[1].roundtrip_price_usd = 1001
           /\ h.price = Text(1) =>
                result.total[1] = result.flight[1].roundtrip_price_usd + 1000

\* a result with a leg priced "1,000", returned again after a row that does
\* not parse was removed
C12_Witness ==
  /\ Returned
  /\ prev # <<>> /\ prev[1].how = "dropped"
  /\ flights_df[result.flight[1].outbound].price = Text(1)
  /\ Len(flights_df) + Len(hotels_df) >= 3

(***************************************************************************)
(* C13  Zero-price result.  A call returns either the no-match value       *)
(* (None, None, None) or a flight, a hotel and a total, all three; when    *)
(* the only total that fits the budget is 0 (free legs and a free hotel,   *)
(* also with a budget of 0) it returns that combination with total 0, not  *)
(* the no-match value.                                                     *)
(***************************************************************************)
C13_ZeroPrice ==
  Done =>
    /\ \/ result = NoMatch
       \/ result.flight # <<>> /\ result.hotel # <<>> /\ result.total # <<>>
    /\ EnumeratedTotals = {0} => (Returned /\ result.total[1] = 0)
    /\ Returned =>
         (result.total[1] = 0 <=>
            /\ result.flight[1].roundtrip_price_usd = 0
            /\ result.hotel[1].price = 0)

\* free legs and a free hotel returned under a budget of 0
C13_Witness ==
  /\ Returned
  /\ req.budget = 0
  /\ result.total[1] = 0
  /\ result.hotel[1].price = 0

C16_Original ==
  pc = "loop" =>
    LET pairs == PairsFrom(OutPriced, RetPriced, 1, 1)
        n == Min(Len(pairs), req.max_pairs)
    IN  /\ Len(roundtrips) = n
        /\ Len(roundtrips) <= req.max_pairs
        /\ Elems(roundtrips) = {RoundTrip(pairs[k][1], pairs[k][2]) : k \in 1..n}

(***************************************************************************)
(* C17  Genuine combination.  The outbound leg of a returned result flies  *)
(* origin -> destination on start_date, the return leg destination ->      *)
(* origin on the return date, each in its direction when the catalog has   *)
(* a direction column; the hotel is a row of the catalog in the            *)
(* destination city whose availability window, when the catalog has one,   *)
(* holds the stay; the round-trip price is the sum of the two legs' prices *)
(* and the total adds the hotel's nightly price times the nights.          *)
(***************************************************************************)
C17_GenuineCombination ==
  Returned =>
    LET o == flights_df[result.flight[1].outbound]
        r == flights_df[result.flight[1].return]
        h == result.hotel[1]
        last_day == req.start_date + req.days - 1
    IN  /\ Lower(o.origin) = "nyc" /\ Lower(o.destination) = "lon"
        /\ o.date = req.start_date
        /\ cols.direction => Upper(o.direction) = "OUTBOUND"
        /\ Lower(r.origin) = "lon" /\ Lower(r.destination) = "nyc"
        /\ r.date = last_day
        /\ cols.direction => Upper(r.direction) = "RETURN"
        /\ \E i \in DOMAIN hotels_df : hotels_df[i] = h
        /\ Lower(h.city) = "lon"
        /\ (cols.av_start /\ cols.av_end) =>
             /\ h.av_start \in Nat /\ h.av_start <= req.start_date
             /\ h.av_end \in Nat /\ h.av_end >= last_day
        /\ o.price \in Nat /\ r.price \in Nat /\ h.price \in Nat
        /\ result.flight[1].roundtrip_price_usd = o.price + r.price
        /\ result.total[1] = o.price + r.price + h.price * Nights(req.days)

\* a result returned from a catalog that also lists, on the outbound route and
\* date, a leg of the other direction
C17_Witness ==
  /\ Returned
  /\ cols.direction
  /\ \E i \in DOMAIN flights_df :
       /\ Lower(flights_df[i].origin) = "nyc"
       /\ Lower(flights_df[i].destination) = "lon"
       /\ flights_df[i].date = req.start_date
       /\ Upper(flights_df[i].direction) = "RETURN"

(***************************************************************************)
(* C15  Booking gated by consent.  A receipt is written only by a          *)
(* controller turn that starts with awaiting_consent true and whose user   *)
(* message contains a confirmation word; a book_trip call executed inside  *)
(* search_with_tools gets the result "blocked" and writes nothing.         *)
(***************************************************************************)
C15_BookingGated ==
  [][/\ receipts' # receipts =>
          /\ cpc = "idle"
          /\ agent_state.awaiting_consent
          /\ contains_yes(user_text')
     /\ (/\ cpc = "tools"
         /\ tool_calls # <<>>
         /\ Head(tool_calls) = "book_trip"
         /\ cpc' = "tools") =>
          /\ last_tool' = <<NoPayload("blocked")>>
          /\ receipts' = receipts]_vars

\* after a booking, a later search in which the model asked for book_trip and
\* was refused
C15_Witness ==
  /\ receipts # <<>>
  /\ cpc = "tools"
  /\ last_tool = <<NoPayload("blocked")>>
  /\ ~agent_state.awaiting_consent

(***************************************************************************)
(* C18  Decline words, as claimed: a controller turn that starts with      *)
(* awaiting_consent true and whose user message contains a decline word    *)
(* writes no receipt and ends with awaiting_consent false and              *)
(* consent_granted false.                                                  *)
(***************************************************************************)
C18_Original ==
  [][(/\ cpc = "idle"
      /\ agent_state.awaiting_consent
      /\ contains_no(user_text')) =>
       /\ receipts' = receipts
       /\ ~agent_state'.awaiting_consent
       /\ agent_state'.consent_granted = <<FALSE>>]_vars

(***************************************************************************)
(* C19  Receipt contents, as claimed: every receipt written records the    *)
(* trip_request, flight_option, hotel_option and total_price the           *)
(* controller held when the user confirmed, whatever the model answered.   *)
(***************************************************************************)
C19_Original ==
  [][\A k \in (Len(receipts) + 1)..Len(receipts') :
        /\ receipts'[k].trip_request = agent_state.trip_request
        /\ receipts'[k].flight_option = agent_state.flight_option
        /\ receipts'[k].hotel_option = agent_state.hotel_option
        /\ <<receipts'[k].total_price_usd>> = agent_state.total_price]_vars

(***************************************************************************)
(* C20  One confirmation, one booking, as claimed: a controller turn       *)
(* writes at most one receipt, and a turn that writes one ends with        *)
(* awaiting_consent false, so that the next receipt needs a new successful *)
(* search and a new confirming reply.                                      *)
(***************************************************************************)
C20_Original ==
  [][/\ Len(receipts') <= Len(receipts) + 1
     /\ receipts' # receipts => ~agent_state'.awaiting_consent]_vars

C22_Original ==
  [][(cpc = "idle" /\ agent_state.awaiting_consent) =>
       /\ agent_state'.trip_request = agent_state.trip_request
       /\ agent_state'.flight_option = agent_state.flight_option
       /\ agent_state'.hotel_option = agent_state.hotel_option
       /\ agent_state'.total_price = agent_state.total_price
       /\ agent_state'.itinerary_text = agent_state.itinerary_text
       /\ (~contains_yes(user_text') /\ ~contains_no(user_text')) =>
            /\ agent_state' = agent_state
            /\ messages' = <<"reprompt">>
            /\ receipts' = receipts
       /\ (contains_yes(user_text') \/ contains_no(user_text')) =>
            ~agent_state'.awaiting_consent]_vars

====
